---- MODULE Spec2Model ----
(***************************************************************************)
(* Model of src/fitness.py: the fairness metric engine (fairness_metrics), *)
(* the fitness evaluator (fitness) and the optimization driver             *)
(* (fitness_model_optimization).                                           *)
(*                                                                         *)
(* Numbers the code holds as floats are exact rationals <<num, den>> here; *)
(* float('inf') is <<1, 0>>.  pandas Series are functions from index label *)
(* to value, and a NaN entry of a Series is a label left out of the        *)
(* function's domain (every reduction the code uses skips NaN).            *)
(***************************************************************************)
EXTENDS Integers, Sequences, FiniteSets

(* ------------------------------ bounds --------------------------------- *)
\* rows of the dataset handed to fairness_metrics and to fitness
NRows == 3
\* rows of the dataset handed to fitness_model_optimization
DriverRows == 1
\* longest technique list handed to fitness_model_optimization
MaxTechniques == 2
\* largest value of the (label-encoded) protected attribute
MaxCategory == 2
\* calls of fitness made on the same arguments
Runs == 2

(* --------------------------- program constants ------------------------- *)
\* test_size=0.2: one row in TestSizeInverse goes to the test partition
TestSizeInverse == 5

(* --------------------------- rational numbers -------------------------- *)
RECURSIVE GCD(_, _)
GCD(a, b) == IF b = 0 THEN a ELSE GCD(b, a % b)

Abs(x) == IF x < 0 THEN -x ELSE x

Norm(r) ==
    LET g == GCD(Abs(r[1]), r[2])
    IN  IF g = 0 THEN r ELSE <<r[1] \div g, r[2] \div g>>

Zero == <<0, 1>>
One == <<1, 1>>
Inf == <<1, 0>>

RatAdd(a, b) == Norm(<<a[1] * b[2] + b[1] * a[2], a[2] * b[2]>>)
RatSub(a, b) == Norm(<<a[1] * b[2] - b[1] * a[2], a[2] * b[2]>>)
RatAbs(a) == <<Abs(a[1]), a[2]>>
RatMul(a, b) == Norm(<<a[1] * b[1], a[2] * b[2]>>)
\* a / b with b > 0
RatDiv(a, b) == Norm(<<a[1] * b[2], a[2] * b[1]>>)
RatLess(a, b) == a[1] * b[2] < b[1] * a[2]
RatLeq(a, b) == a = b \/ RatLess(a, b)

RECURSIVE SumRat(_, _)
SumRat(f, S) ==
    IF S = {} THEN Zero
    ELSE LET k == CHOOSE x \in S : TRUE
         IN  RatAdd(f[k], SumRat(f, S \ {k}))

(* ------------------------------ sequences ------------------------------ *)
Range(s) == {s[k] : k \in 1..Len(s)}

RECURSIVE SortedSeq(_)
SortedSeq(S) ==
    IF S = {} THEN <<>>
    ELSE LET m == CHOOSE x \in S : \A y \in S : x <= y
         IN  <<m>> \o SortedSeq(S \ {m})

Reverse(s) == [k \in 1..Len(s) |-> s[Len(s) + 1 - k]]

SeqsUpTo(S, n) == UNION {[1..k -> S] : k \in 0..n}

(* ------------------------------- dataset ------------------------------- *)
Labels == {0, 1}
Categories == 0..MaxCategory
Row == [target : Labels, protected : Categories]

(* ------------------------- fairness_metrics ---------------------------- *)
\* pd.Series(predictions, index=test_indices): label -> prediction
predictions_series(test_indices, predictions) ==
    [r \in Range(test_indices) |->
        predictions[CHOOSE k \in 1..Len(test_indices) : test_indices[k] = r]]

\* faulty variant: the target filter dropped
all_indices(test_data, test_indices) == test_indices

\* test_indices[test_data.loc[test_indices, target_column] == 1]
positive_indices(test_data, test_indices) ==
    SelectSeq(test_indices, LAMBDA r : test_data[r].target = 1)

\* predictions_series.loc[positive_indices]
predictions_aligned(test_data, test_indices, predictions) ==
    LET pos == positive_indices(test_data, test_indices)
        ps == predictions_series(test_indices, predictions)
    IN  [k \in 1..Len(pos) |-> ps[pos[k]]]

\* Series.value_counts(normalize=True): value -> share of the entries
value_counts(s) ==
    [v \in Range(s) |-> Norm(<<Cardinality({k \in 1..Len(s) : s[k] = v}), Len(s)>>)]

actual_positive(test_data, test_indices) ==
    LET pos == positive_indices(test_data, test_indices)
    IN  value_counts([k \in 1..Len(pos) |-> test_data[pos[k]].protected])

predicted_positive(test_data, test_indices, predictions) ==
    value_counts(predictions_aligned(test_data, test_indices, predictions))

\* np.abs(a - b).sum(): a - b aligns the two Series on the union of their
\* labels and is NaN at a label only one of them has; sum() skips NaN.
abs_diff_sum(a, b) ==
    LET common == DOMAIN a \cap DOMAIN b
    IN  SumRat([k \in common |-> RatAbs(RatSub(a[k], b[k]))], common)

\* test_data[(test_data[target] == 1) & (predictions_series == 1)][protected]
\*   .value_counts(normalize=True); the & is False at a row without prediction
true_positives(test_data, test_indices, predictions) ==
    LET ps == predictions_series(test_indices, predictions)
        hit == SelectSeq([r \in 1..Len(test_data) |-> r],
                         LAMBDA r : /\ test_data[r].target = 1
                                    /\ r \in DOMAIN ps
                                    /\ ps[r] = 1)
    IN  value_counts([k \in 1..Len(hit) |-> test_data[hit[k]].protected])

fairness_metrics(test_data, test_indices, predictions) ==
    LET ap == actual_positive(test_data, test_indices)
        pp == predicted_positive(test_data, test_indices, predictions)
        tp == true_positives(test_data, test_indices, predictions)
    IN  [disparity |-> abs_diff_sum(ap, pp),
         statistical_parity |-> abs_diff_sum(pp, ap),
         equal_opportunity |-> abs_diff_sum(tp, ap)]

(* ------------------- performance metrics (sklearn) --------------------- *)
Count(s, v) == Cardinality({k \in 1..Len(s) : s[k] = v})
Pairs(y_true, y_pred, t, p) ==
    Cardinality({k \in 1..Len(y_true) : y_true[k] = t /\ y_pred[k] = p})

\* a / b, and 0 where the division is undefined (zero_division=0)
Ratio(a, b) == IF b = 0 THEN Zero ELSE Norm(<<a, b>>)

\* the average of per-label scores weighted by each label's support
Weighted(y_true, y_pred, score) ==
    LET labels == Range(y_true) \cup Range(y_pred)
        support == [l \in labels |-> Count(y_true, l)]
    IN  RatDiv(SumRat([l \in labels |-> RatMul(<<support[l], 1>>, score[l])], labels),
               <<Len(y_true), 1>>)

accuracy_score(y_true, y_pred) ==
    Norm(<<Cardinality({k \in 1..Len(y_true) : y_true[k] = y_pred[k]}), Len(y_true)>>)

precision_score(y_true, y_pred) ==
    Weighted(y_true, y_pred,
             [l \in Range(y_true) \cup Range(y_pred) |->
                 Ratio(Pairs(y_true, y_pred, l, l), Count(y_pred, l))])

recall_score(y_true, y_pred) ==
    Weighted(y_true, y_pred,
             [l \in Range(y_true) \cup Range(y_pred) |->
                 Ratio(Pairs(y_true, y_pred, l, l), Count(y_true, l))])

f1_score(y_true, y_pred) ==
    Weighted(y_true, y_pred,
             [l \in Range(y_true) \cup Range(y_pred) |->
                 Ratio(2 * Pairs(y_true, y_pred, l, l),
                       Count(y_true, l) + Count(y_pred, l))])

performance_score(y_true, y_pred) ==
    RatDiv(RatAdd(RatAdd(accuracy_score(y_true, y_pred), precision_score(y_true, y_pred)),
                  RatAdd(recall_score(y_true, y_pred), f1_score(y_true, y_pred))),
           <<4, 1>>)

\* sum(fairness.values())
fairness_score(fairness) ==
    RatAdd(RatAdd(fairness.disparity, fairness.statistical_parity),
           fairness.equal_opportunity)

\* (1 - performance_score) + fairness_score, on the rows `index` of `data`
fitness_value(data, index, y_pred) ==
    LET y_true == [k \in 1..Len(index) |-> data[index[k]].target]
    IN  RatAdd(RatSub(One, performance_score(y_true, y_pred)),
               fairness_score(fairness_metrics(data, index, y_pred)))

NoReport == [disparity |-> Inf, statistical_parity |-> Inf, equal_opportunity |-> Inf]

VARIABLES
    \* fairness_metrics: its arguments, the rows the caller predicted for,
    \* and how the call ended
    test_data, test_indices, predictions, pred_rows, m_pc, m_report, m_error,
    \* fitness_model_optimization: its arguments, the loop position, the
    \* accumulator, how the call ended, and a log of what the loop did
    X_df, techniques, i, best_model, best_fitness, d_pc, d_result,
    predict_call, evaluated, invoked, raised_at,
    \* fitness: its arguments, the test partition of the seeded split, what a
    \* classifier without randomness predicts on it, and the calls made so far
    data, model, X_test_index, fixed_pred, f_pc, f_results, f_error, fits

metricsVars == <<test_data, test_indices, predictions, pred_rows, m_pc, m_report, m_error>>
driverVars == <<X_df, techniques, i, best_model, best_fitness, d_pc, d_result,
                predict_call, evaluated, invoked, raised_at>>
fitnessVars == <<data, model, X_test_index, fixed_pred, f_pc, f_results, f_error, fits>>
vars == <<metricsVars, driverVars, fitnessVars>>

NoneModel == [technique |-> "None", pos |-> 0]
NoResult == [returned |-> FALSE, best_model |-> NoneModel, best_fitness |-> Inf]

MetricsIdle ==
    /\ test_data = <<>>
    /\ test_indices = <<>>
    /\ predictions = <<>>
    /\ pred_rows = <<>>
    /\ m_pc = "idle"
    /\ m_report = NoReport
    /\ m_error = "none"

DriverIdle ==
    /\ X_df = <<>>
    /\ techniques = <<>>
    /\ i = 0
    /\ best_model = NoneModel
    /\ best_fitness = Inf
    /\ d_pc = "idle"
    /\ d_result = NoResult
    /\ predict_call = "none"
    /\ evaluated = <<>>
    /\ invoked = {}
    /\ raised_at = 0

FitnessIdle ==
    /\ data = <<>>
    /\ model = "none"
    /\ X_test_index = <<>>
    /\ fixed_pred = <<>>
    /\ f_pc = "idle"
    /\ f_results = <<>>
    /\ f_error = "none"
    /\ fits = 0

(* ------------------------ fairness_metrics calls ----------------------- *)
\* the index subsets of the dataset, each in ascending and in descending order
IndexSeqs(n) ==
    {SortedSeq(S) : S \in SUBSET (1..n)} \cup {Reverse(SortedSeq(S)) : S \in SUBSET (1..n)}

\* The caller computed `predictions` for the rows pred_rows, in that order:
\* for test_indices itself, for its reverse, or for all but its first row.
MetricsInit ==
    /\ test_data \in [1..NRows -> Row]
    /\ test_indices \in IndexSeqs(NRows)
    /\ pred_rows \in {test_indices, Reverse(test_indices)}
                     \cup (IF test_indices = <<>> THEN {} ELSE {Tail(test_indices)})
    /\ predictions \in [1..Len(pred_rows) -> Labels]
    /\ m_pc = "call"
    /\ m_report = NoReport
    /\ m_error = "none"
    /\ DriverIdle
    /\ FitnessIdle

\* line 30: pd.Series raises ValueError when the lengths differ
MetricsRaise ==
    /\ m_pc = "call"
    /\ Len(predictions) # Len(test_indices)
    /\ m_pc' = "raised"
    /\ m_error' = "ValueError"
    /\ UNCHANGED <<test_data, test_indices, predictions, pred_rows, m_report>>
    /\ UNCHANGED <<driverVars, fitnessVars>>

MetricsReturn ==
    /\ m_pc = "call"
    /\ Len(predictions) = Len(test_indices)
    /\ m_pc' = "returned"
    /\ m_report' = fairness_metrics(test_data, test_indices, predictions)
    /\ UNCHANGED <<test_data, test_indices, predictions, pred_rows, m_error>>
    /\ UNCHANGED <<driverVars, fitnessVars>>

MetricsNext == MetricsRaise \/ MetricsReturn

SpecMetrics == MetricsInit /\ [][MetricsNext]_vars

(* -------------------- fitness_model_optimization ----------------------- *)
TechniqueIds ==
    {"hyperparameter_tuning", "outcomes_transformation", "outcomes_optimization",
     "unknown_technique"}

\* faulty variant: the final else branch missing, every identifier dispatched
RecognizedAny(technique) == TRUE

\* the if/elif chain of the loop body; its else branch is `continue`
Recognized(technique) ==
    \/ technique = "hyperparameter_tuning"
    \/ technique = "outcomes_transformation"
    \/ technique = "outcomes_optimization"

\* faulty variant: <= for <
ImprovesOrTies(value, best) == RatLeq(value, best)

\* faulty variant: the comparison dropped, every model replaces the best
ImprovesAlways(value, best) == TRUE

\* if fitness_value < best_fitness
Improves(value, best) == RatLess(value, best)

\* X.index: every row of X_df, in order
XIndex == [r \in 1..Len(X_df) |-> r]

DriverInit ==
    /\ X_df \in [1..DriverRows -> Row]
    /\ techniques \in SeqsUpTo(TechniqueIds, MaxTechniques)
    /\ i = 1
    /\ best_model = NoneModel
    /\ best_fitness = Inf
    /\ d_pc = "loop"
    /\ d_result = NoResult
    /\ predict_call = "none"
    /\ evaluated = <<>>
    /\ invoked = {}
    /\ raised_at = 0
    /\ MetricsIdle
    /\ FitnessIdle

\* an unrecognized identifier: continue
DriverSkip ==
    /\ d_pc = "loop"
    /\ i <= Len(techniques)
    /\ ~Recognized(techniques[i])
    /\ i' = i + 1
    /\ UNCHANGED <<X_df, techniques, best_model, best_fitness, d_pc, d_result,
                   predict_call, evaluated, invoked, raised_at>>
    /\ UNCHANGED <<metricsVars, fitnessVars>>

\* One iteration that runs to its end: the technique builds current_model
\* (a ThresholdOptimizer or not), the model predicts y_pred for X, the
\* metrics give fitness_value, and the accumulator takes it when it improves.
DriverEvaluate ==
    /\ d_pc = "loop"
    /\ i <= Len(techniques)
    /\ Recognized(techniques[i])
    /\ \E y_pred \in [1..Len(X_df) -> Labels] :
          LET current_model == [technique |-> techniques[i], pos |-> i]
              value == fitness_value(X_df, XIndex, y_pred)
          IN  /\ evaluated' = Append(evaluated, [pos |-> i, fitness |-> value])
              /\ IF Improves(value, best_fitness)
                    THEN best_fitness' = value /\ best_model' = current_model
                    ELSE UNCHANGED <<best_fitness, best_model>>
    /\ \E threshold \in BOOLEAN :
          predict_call' = IF threshold THEN "predict_sensitive" ELSE "predict"
    /\ invoked' = invoked \cup {i}
    /\ i' = i + 1
    /\ UNCHANGED <<X_df, techniques, d_pc, d_result, raised_at>>
    /\ UNCHANGED <<metricsVars, fitnessVars>>

\* faulty variant: the loop body wrapped in try/except, the search goes on
DriverRaiseCaught ==
    /\ d_pc = "loop"
    /\ i <= Len(techniques)
    /\ Recognized(techniques[i])
    /\ \E cause \in {"constructor", "predict", "metrics"} :
          \/ cause = "constructor" /\ predict_call' = predict_call
          \/ cause # "constructor" /\ predict_call' \in {"predict", "predict_sensitive"}
    /\ invoked' = invoked \cup {i}
    /\ raised_at' = i
    /\ i' = i + 1
    /\ UNCHANGED <<X_df, techniques, d_pc, best_model, best_fitness, d_result, evaluated>>
    /\ UNCHANGED <<metricsVars, fitnessVars>>

\* An iteration in which the technique constructor, the prediction call or
\* the metric computation raises: nothing in the loop catches it.
DriverRaise ==
    /\ d_pc = "loop"
    /\ i <= Len(techniques)
    /\ Recognized(techniques[i])
    /\ \E cause \in {"constructor", "predict", "metrics"} :
          \/ cause = "constructor" /\ predict_call' = predict_call
          \/ cause # "constructor" /\ predict_call' \in {"predict", "predict_sensitive"}
    /\ invoked' = invoked \cup {i}
    /\ raised_at' = i
    /\ d_pc' = "raised"
    /\ UNCHANGED <<X_df, techniques, i, best_model, best_fitness, d_result, evaluated>>
    /\ UNCHANGED <<metricsVars, fitnessVars>>

\* return best_model, best_fitness
DriverReturn ==
    /\ d_pc = "loop"
    /\ i > Len(techniques)
    /\ d_pc' = "done"
    /\ d_result' = [returned |-> TRUE, best_model |-> best_model,
                    best_fitness |-> best_fitness]
    /\ UNCHANGED <<X_df, techniques, i, best_model, best_fitness,
                   predict_call, evaluated, invoked, raised_at>>
    /\ UNCHANGED <<metricsVars, fitnessVars>>

DriverNext == DriverSkip \/ DriverEvaluate \/ DriverRaise \/ DriverReturn

SpecDriver == DriverInit /\ [][DriverNext]_vars

(* ------------------------------- fitness ------------------------------- *)
ModelKinds ==
    {"logistic_regression", "random_forest", "svm", "knn", "gradient_boosting",
     "unsupported_model"}

\* the if/elif chain that binds `classifier`; it has no else branch
classifier_for(kind) ==
    IF kind = "logistic_regression" THEN "LogisticRegression"
    ELSE IF kind = "random_forest" THEN "RandomForestClassifier"
    ELSE IF kind = "svm" THEN "SVC"
    ELSE IF kind = "knn" THEN "KNeighborsClassifier"
    ELSE IF kind = "gradient_boosting" THEN "GradientBoostingClassifier"
    ELSE "unbound"

\* The constructors are called without random_state.  RandomForestClassifier
\* (bootstrap samples, feature subsets) and GradientBoostingClassifier (the
\* feature permutation at each split) then draw from the global numpy RNG;
\* liblinear's primal solver, SVC without probability estimates and
\* KNeighborsClassifier draw nothing.
draws_random(classifier) ==
    classifier \in {"RandomForestClassifier", "GradientBoostingClassifier"}

\* train_test_split(test_size=0.2): ceil(0.2 * n) rows are test rows
test_count(n) == (n + TestSizeInverse - 1) \div TestSizeInverse

\* random_state=42 fixes the split: X_test_index is the same in every call.
FitnessInit ==
    /\ data \in [1..NRows -> Row]
    /\ model \in ModelKinds
    /\ X_test_index \in {s \in IndexSeqs(NRows) : Len(s) = test_count(NRows)}
    /\ fixed_pred \in [1..test_count(NRows) -> Labels]
    /\ f_pc = "call"
    /\ f_results = <<>>
    /\ f_error = "none"
    /\ fits = 0
    /\ MetricsIdle
    /\ DriverIdle

\* no branch bound `classifier`: classifier.fit raises UnboundLocalError
FitnessUnbound ==
    /\ f_pc = "call"
    /\ classifier_for(model) = "unbound"
    /\ f_pc' = "raised"
    /\ f_error' = "UnboundLocalError"
    /\ UNCHANGED <<data, model, X_test_index, fixed_pred, f_results, fits>>
    /\ UNCHANGED <<metricsVars, driverVars>>

\* One call that returns: fit, predict, the metrics, the fitness value.
\* A classifier that draws random numbers may predict anything; the others
\* predict what they predicted before on the same training rows.
FitnessReturn ==
    /\ f_pc = "call"
    /\ classifier_for(model) # "unbound"
    /\ \E y_pred \in [1..Len(X_test_index) -> Labels] :
          /\ draws_random(classifier_for(model)) \/ y_pred = fixed_pred
          /\ f_results' = Append(f_results, fitness_value(data, X_test_index, y_pred))
    /\ fits' = fits + 1
    /\ f_pc' = IF Len(f_results) + 1 = Runs THEN "done" ELSE "call"
    /\ UNCHANGED <<data, model, X_test_index, fixed_pred, f_error>>
    /\ UNCHANGED <<metricsVars, driverVars>>

FitnessNext == FitnessUnbound \/ FitnessReturn

SpecFitness == FitnessInit /\ [][FitnessNext]_vars

(* ================================ claims =============================== *)
\* the technique identifiers the specification names
TechniqueNames ==
    {"hyperparameter_tuning", "outcomes_transformation", "outcomes_optimization"}

RecognizedPositions == {p \in 1..Len(techniques) : techniques[p] \in TechniqueNames}

ZeroReport == [disparity |-> Zero, statistical_parity |-> Zero, equal_opportunity |-> Zero]

NoPositiveRow == \A k \in 1..Len(test_indices) : test_data[test_indices[k]].target # 1

\* sum over the union of the categories of |a - b|, an absent rate being 0
UnionAbsDiffSum(a, b) ==
    LET all == DOMAIN a \cup DOMAIN b
        rate(f, k) == IF k \in DOMAIN f THEN f[k] ELSE Zero
    IN  SumRat([k \in all |-> RatAbs(RatSub(rate(a, k), rate(b, k)))], all)

\* C1: when the driver returns, every recognized position of the list and no
\* other was evaluated; best_fitness is the minimum of the evaluated fitness
\* values (+infinity when there is none) and best_model is the model built at
\* the earliest position whose fitness equals that minimum.
C1_BestIsEarliestMinimum ==
    d_pc = "done" =>
        /\ {evaluated[k].pos : k \in 1..Len(evaluated)} = RecognizedPositions
        /\ IF evaluated = <<>>
              THEN d_result.best_fitness = Inf /\ d_result.best_model = NoneModel
              ELSE /\ \A k \in 1..Len(evaluated) :
                         RatLeq(d_result.best_fitness, evaluated[k].fitness)
                   /\ \E k \in 1..Len(evaluated) :
                         /\ evaluated[k].fitness = d_result.best_fitness
                         /\ \A j \in 1..(k - 1) :
                               evaluated[j].fitness # d_result.best_fitness
                         /\ d_result.best_model =
                               [technique |-> techniques[evaluated[k].pos],
                                pos |-> evaluated[k].pos]

\* C1 witness: the driver returned after two techniques tied on fitness and
\* kept the model of the first.
C1_Witness ==
    /\ d_pc = "done"
    /\ Len(evaluated) >= 2
    /\ evaluated[1].fitness = evaluated[2].fitness
    /\ d_result.best_model.pos = evaluated[1].pos

\* C2: a technique list without a recognized identifier never raises, never
\* invokes a constructor, a prediction or a metric, and returns (None, +inf).
C2_NothingRecognized ==
    RecognizedPositions = {} =>
        /\ d_pc # "raised"
        /\ invoked = {}
        /\ evaluated = <<>>
        /\ predict_call = "none"
        /\ (d_pc = "done" =>
              d_result = [returned |-> TRUE, best_model |-> NoneModel,
                          best_fitness |-> Inf])

\* C2 witness: the driver returned for a list made of one unknown identifier.
C2_Witness ==
    /\ d_pc = "done"
    /\ techniques = <<"unknown_technique">>
    /\ d_result.returned

\* C3: with a positive row among the evaluated rows and predictions equal to
\* the true labels on every evaluated row, the three metrics are 0.
C3_PerfectPredictionIsFair ==
    ( /\ m_pc = "returned"
      /\ ~NoPositiveRow
      /\ \A k \in 1..Len(test_indices) :
            predictions[k] = test_data[test_indices[k]].target )
    => m_report = ZeroReport

\* C4: each metric is the sum over the union of the categories of the two
\* distributions of |rate_a - rate_b|, a rate absent on one side being 0.
C4_MissingCategoryIsZero ==
    m_pc = "returned" =>
        LET ap == actual_positive(test_data, test_indices)
            pp == predicted_positive(test_data, test_indices, predictions)
            tp == true_positives(test_data, test_indices, predictions)
        IN  /\ m_report.disparity = UnionAbsDiffSum(ap, pp)
            /\ m_report.statistical_parity = UnionAbsDiffSum(pp, ap)
            /\ m_report.equal_opportunity = UnionAbsDiffSum(tp, ap)

\* C5: with no evaluated row of target 1 and one prediction per evaluated
\* row, fairness_metrics does not raise and its report is {0, 0, 0}.
C5_EmptyPositiveClass ==
    (NoPositiveRow /\ Len(predictions) = Len(test_indices)) =>
        /\ m_pc # "raised"
        /\ (m_pc = "returned" => m_report = ZeroReport)

\* C5 witness: a report was returned for evaluated rows that are all negative
\* and a prediction vector that holds a 1.
C5_Witness ==
    /\ m_pc = "returned"
    /\ NoPositiveRow
    /\ Len(test_indices) >= 2
    /\ \E k \in 1..Len(predictions) : predictions[k] = 1

\* C6: a call of fitness with a model kind outside the five supported ones
\* ends in the error UnsupportedModelKind.
C6_UnsupportedModelKind ==
    (f_pc = "raised" /\ classifier_for(model) = "unbound")
    => f_error = "UnsupportedModelKind"

\* C7: once an iteration raised, the search is over: nothing is returned and
\* no technique after the raising one was invoked.
C7_ExceptionAborts ==
    raised_at # 0 =>
        /\ d_pc = "raised"
        /\ ~d_result.returned
        /\ \A p \in invoked : p <= raised_at

\* C7 witness: an iteration raised after an earlier technique had given a
\* best candidate.
C7_Witness ==
    /\ d_pc = "raised"
    /\ raised_at > 1
    /\ best_model # NoneModel
    /\ ~d_result.returned

\* C8: best_fitness starts at +infinity and never increases from one step to
\* the next, and a returned best_fitness is not greater than the fitness of
\* the first technique evaluated.
C8_BestNeverIncreases ==
    /\ best_fitness = Inf
    /\ [][RatLeq(best_fitness', best_fitness)]_vars
    /\ []((d_pc = "done" /\ evaluated # <<>>) =>
             RatLeq(d_result.best_fitness, evaluated[1].fitness))

\* C8 witness: the driver returned a best_fitness strictly below the fitness
\* of the first technique evaluated.
C8_Witness ==
    /\ d_pc = "done"
    /\ evaluated # <<>>
    /\ RatLess(d_result.best_fitness, evaluated[1].fitness)

\* C9: two calls of fitness on the same arguments return the same value.
C9_FitnessIsDeterministic ==
    Len(f_results) >= 2 => f_results[1] = f_results[2]

\* C10: a report is returned only for predictions that were computed for the
\* rows test_indices, in that order.
C10_MisalignedIsRejected ==
    m_pc = "returned" => pred_rows = test_indices
====
